---------------------------- MODULE Spec2Model ----------------------------
(***************************************************************************)
(* Model of the translations store of linguist                             *)
(* (src/requests/backend/translations/data.ts): the lazily opened          *)
(* IndexedDB handle, the single-record operations, the paginated           *)
(* enumeration and the recursive partial-equality matcher.                 *)
(*                                                                         *)
(* JavaScript values are modelled as records of one uniform shape          *)
(*   [t, n, s, items]                                                      *)
(* t is the kind of the value ("undefined", "null", "number", "string",    *)
(* "boolean", "array", "object"), n the payload of a number or boolean,    *)
(* s the payload of a string, items the own enumerable properties of an    *)
(* array or object in Object.keys order, each [k |-> name, v |-> value].   *)
(***************************************************************************)
EXTENDS Integers, Sequences, FiniteSets, TLC

VARIABLES
    DBInstance,   \* data.ts:43, 0 is null, otherwise the id of a handle
    opens,        \* number of IDB.openDB calls issued so far
    nHandles,     \* number of handles IDB.openDB has resolved with
    dbVersion,    \* version of the database on disk, 0 before the upgrade
    upgrades,     \* number of times the upgrade callback ran
    store,        \* object store 'translations': live key -> stored value
    index,        \* index 'originalText': set of <<originalText, key>>
    keyGen,       \* key generator of the object store: the next key
    pc,           \* position of each caller's pending operation
    call,         \* the pending operation of each caller and its arguments
    db,           \* the handle each pending operation got from getDB
    ret,          \* the outcome of each caller's settled operation
    addLog,       \* every addEntry that returned, in order: its key, its
                  \* entry and the keys that were stored before it
    tx,           \* the readwrite transaction of a deleteEntries in progress
    committed,    \* the content of the object store as of the last commit
    obj1,         \* first argument of isEqualIntersection
    obj2,         \* second argument of isEqualIntersection
    mres,         \* outcome of isEqualIntersection(obj1, obj2)
    translateManager,         \* Background/index.ts:175, 0 is null,
                              \* otherwise the id of a TranslatorManager
    translateManagerPromise,  \* index.ts:176, 0 is null, otherwise the id
                              \* of a promise with controls
    promises,     \* the promises with controls created so far: the manager
                  \* each was resolved with, 0 while it is pending
    cleared,      \* the promises whose finally callback has run
    managers,     \* the TranslatorManagers constructed so far: the config
                  \* each one holds
    config,       \* the current value of $translateManagerConfig
    updates,      \* number of changes of the configuration so far
    starts,       \* the calls of start(): the position of each
    got           \* the getTranslateManager call of each caller

vars == <<DBInstance, opens, nHandles, dbVersion, upgrades, store, index,
          keyGen, pc, call, db, ret, addLog, tx, committed, obj1, obj2, mres,
          translateManager, translateManagerPromise, promises, cleared,
          managers, config, updates, starts, got>>

storeVars == <<DBInstance, opens, nHandles, dbVersion, upgrades, store, index,
               keyGen, pc, call, db, ret, addLog, tx, committed>>

matchVars == <<obj1, obj2, mres>>

latchVars == <<translateManager, translateManagerPromise, promises, cleared,
               managers, config, updates, starts, got>>

(***************************************************************************)
(* Bounds of the model.                                                    *)
(***************************************************************************)
MaxAdds == 2
MaxArrLen == 2
MaxFrom == 3
MaxLimit == 3

\* the concurrent callers of the store
Callers == {1, 2}

\* the enumeration is checked on a store of up to MaxPageAdds records
MaxPageAdds == MaxAdds + 1

\* the model lets IDB.openDB fail at most this many times
MaxOpenFails == 2

\* the version the code opens the database with
DBVersion == 1

\* the model calls start() at most this many times
MaxStarts == 2

\* the model changes the configuration at most this many times
MaxUpdates == 2

\* the model lets getTranslateManager create at most this many promises
MaxPromises == 2

\* the values of $translateManagerConfig
Configs == {1, 2}

(***************************************************************************)
(* JavaScript values.                                                      *)
(***************************************************************************)
Undef == [t |-> "undefined", n |-> 0, s |-> "", items |-> <<>>]
Null == [t |-> "null", n |-> 0, s |-> "", items |-> <<>>]
Num(i) == [t |-> "number", n |-> i, s |-> "", items |-> <<>>]
Str(x) == [t |-> "string", n |-> 0, s |-> x, items |-> <<>>]
Bool(b) == [t |-> "boolean", n |-> IF b THEN 1 ELSE 0, s |-> "", items |-> <<>>]
Prop(name, value) == [k |-> name, v |-> value]
Obj(props) == [t |-> "object", n |-> 0, s |-> "", items |-> props]

IndexKey(i) == <<"0", "1", "2", "3", "4", "5">>[i + 1]

Arr(elems) ==
    [t |-> "array", n |-> 0, s |-> "",
     items |-> [i \in 1..Len(elems) |-> Prop(IndexKey(i - 1), elems[i])]]

\* typeof v: null, arrays and objects are all 'object'
TypeOf(v) == IF v.t \in {"null", "array", "object"} THEN "object" ELSE v.t

\* Array.isArray(v)
IsArray(v) == v.t = "array"

\* The strings of the model have at most one character.
StringLength(x) == IF x = "" THEN 0 ELSE 1

\* Object.keys(v) throws a TypeError for null and undefined
KeysThrows(v) == v.t \in {"null", "undefined"}

\* Object.keys(v) otherwise: the own enumerable property names, in order; a
\* primitive is converted to its wrapper object first, so that a number or a
\* boolean has no keys and a string has its indices.
ObjectKeys(v) ==
    IF v.t \in {"array", "object"} THEN [i \in 1..Len(v.items) |-> v.items[i].k]
    ELSE IF v.t = "string" THEN [i \in 1..StringLength(v.s) |-> IndexKey(i - 1)]
    ELSE <<>>

HasOwn(v, key) == \E i \in 1..Len(v.items) : v.items[i].k = key

\* v[key] for v neither null nor undefined (for those the access throws)
GetProp(v, key) ==
    IF v.t \in {"array", "object"} THEN
        IF HasOwn(v, key)
        THEN (v.items[CHOOSE i \in 1..Len(v.items) : v.items[i].k = key]).v
        ELSE Undef
    ELSE IF v.t = "string" /\ StringLength(v.s) = 1 /\ key = "0" THEN v
    ELSE Undef

\* a === b for two values whose typeof is not 'object'
StrictEquals(a, b) == a.t = b.t /\ a.n = b.n /\ a.s = b.s

\* lodash isEqual: deep equality; the order of an object's keys is irrelevant
RECURSIVE isEqual(_, _)
isEqual(a, b) ==
    IF a.t # b.t THEN FALSE
    ELSE IF a.t \in {"array", "object"} THEN
        /\ Len(a.items) = Len(b.items)
        /\ \A i \in 1..Len(a.items) :
              /\ HasOwn(b, a.items[i].k)
              /\ isEqual(a.items[i].v, GetProp(b, a.items[i].k))
    ELSE StrictEquals(a, b)

Outcome(b) == IF b THEN "true" ELSE "false"

RECURSIVE isEqualIntersection(_, _)
RECURSIVE EveryKey(_, _, _, _)

\* Object.keys(obj1).every((key) => isEqualIntersection(obj1[key], obj2[key])),
\* from the i-th key on: every stops at the first key whose callback returns
\* false, and an exception thrown by a callback ends the whole call.
EveryKey(o1, o2, keys, i) ==
    IF i > Len(keys) THEN "true"
    ELSE IF KeysThrows(o2) THEN "TypeError"
    ELSE LET r == isEqualIntersection(GetProp(o1, keys[i]), GetProp(o2, keys[i]))
         IN  IF r = "true" THEN EveryKey(o1, o2, keys, i + 1) ELSE r

\* faulty variant: the comparison runs over the keys of the second object
isEqualIntersectionOverCandidate(o1, o2) ==
    IF TypeOf(o1) # "object" /\ TypeOf(o2) # "object"
    THEN Outcome(StrictEquals(o1, o2))
    ELSE IF IsArray(o1) /\ IsArray(o2) THEN Outcome(isEqual(o1, o2))
    ELSE IF IsArray(o1) \/ IsArray(o2) THEN "false"
    ELSE IF KeysThrows(o2) THEN "TypeError"
    ELSE EveryKey(o1, o2, ObjectKeys(o2), 1)

\* faulty variant: two arrays match when the first is a prefix of the second
isEqualIntersectionArrayPrefix(o1, o2) ==
    IF TypeOf(o1) # "object" /\ TypeOf(o2) # "object"
    THEN Outcome(StrictEquals(o1, o2))
    ELSE IF IsArray(o1) /\ IsArray(o2)
    THEN Outcome(/\ Len(o1.items) <= Len(o2.items)
                 /\ \A i \in 1..Len(o1.items) :
                       isEqual(o1.items[i].v, o2.items[i].v))
    ELSE IF IsArray(o1) \/ IsArray(o2) THEN "false"
    ELSE IF KeysThrows(o1) THEN "TypeError"
    ELSE EveryKey(o1, o2, ObjectKeys(o1), 1)

\* data.ts:157-175; the outcome is "true", "false" or "TypeError" (thrown)
isEqualIntersection(o1, o2) ==
    IF TypeOf(o1) # "object" /\ TypeOf(o2) # "object"
    THEN Outcome(StrictEquals(o1, o2))
    ELSE IF IsArray(o1) /\ IsArray(o2) THEN Outcome(isEqual(o1, o2))
    ELSE IF IsArray(o1) \/ IsArray(o2) THEN "false"
    ELSE IF KeysThrows(o1) THEN "TypeError"
    ELSE EveryKey(o1, o2, ObjectKeys(o1), 1)

(***************************************************************************)
(* The values the matcher is applied to.                                   *)
(***************************************************************************)
SeqsUpTo(S, n) == UNION {[1..m -> S] : m \in 0..n}

Primitives == {Undef, Null, Num(1), Num(2), Str(""), Str("x"), Bool(TRUE)}

ArrayValues ==
    {Arr(e) : e \in SeqsUpTo({Num(1), Num(2)}, MaxArrLen)}
      \cup {Arr(<<Obj(<<Prop("a", Num(1))>>)>>),
            Arr(<<Obj(<<Prop("a", Num(1)), Prop("b", Num(2))>>)>>),
            Arr(<<Obj(<<Prop("b", Num(2)), Prop("a", Num(1))>>)>>)}

InnerValues ==
    {Undef, Null, Num(1), Num(2), Str("x"), Arr(<<Num(1)>>), Obj(<<>>),
     Obj(<<Prop("a", Num(1))>>)}

KeyOrders == {<<>>, <<"a">>, <<"b">>, <<"a", "b">>, <<"b", "a">>}

ObjectValues ==
    {Obj([i \in 1..Len(ks) |-> Prop(ks[i], vs[i])]) :
        <<ks, vs>> \in UNION {{ko} \X [1..Len(ko) -> InnerValues] : ko \in KeyOrders}}

MatchValues == Primitives \cup ArrayValues \cup ObjectValues

MatchInit ==
    /\ obj1 \in MatchValues
    /\ obj2 \in MatchValues
    /\ mres = "none"

\* one call isEqualIntersection(obj1, obj2)
Match ==
    /\ mres = "none"
    /\ mres' = isEqualIntersection(obj1, obj2)
    /\ UNCHANGED <<obj1, obj2>>


(***************************************************************************)
(* The store.                                                              *)
(***************************************************************************)
Translation(text, lang) ==
    Obj(<<Prop("from", Str(lang)), Prop("originalText", Str(text))>>)

\* an ITranslationEntry, data.ts:8-12
Entry(text, lang) ==
    Obj(<<Prop("translation", Translation(text, lang)), Prop("timestamp", Num(1))>>)

Entries == {Entry("x", "e"), Entry("x", "f"), Entry("y", "e")}

\* the entries the callers of the concurrent store add
StoreEntries == {Entry("x", "f"), Entry("y", "e")}

\* the entry the enumerated collection is filled with: the stored records
\* differ by their key and by the id injected into them
PageEntries == {Entry("x", "e")}

\* criteria of findEntry: a DeepPartial<ITranslationEntry>
Criteria ==
    {Obj(<<Prop("translation", Obj(<<Prop("originalText", Str("x"))>>))>>),
     Obj(<<Prop("translation", Translation("x", "f"))>>),
     Obj(<<Prop("translation", Obj(<<Prop("from", Str("e"))>>))>>),
     Obj(<<Prop("timestamp", Num(1))>>)}

\* criteria of deleteEntries: an ITranslation, or some of its fields
BulkCriteria ==
    {Translation("x", "e"), Translation("y", "e"),
     Obj(<<Prop("originalText", Str("x"))>>), Obj(<<Prop("from", Str("e"))>>)}

\* translations with a field that holds a sequence or a record
TranslationWith(text, lang, detail) ==
    Obj(<<Prop("from", Str(lang)), Prop("originalText", Str(text)),
          Prop("detail", detail)>>)

AgreeTranslations ==
    {Translation("x", "e"),
     TranslationWith("x", "e", Arr(<<Num(1)>>)),
     TranslationWith("x", "e", Obj(<<Prop("a", Num(1))>>))}

EntryOf(translation) ==
    Obj(<<Prop("translation", translation), Prop("timestamp", Num(1))>>)

\* the criteria findEntry gets for a translation
CriteriaOf(translation) == Obj(<<Prop("translation", translation)>>)

Optional(S) == {<<>>} \cup {<<x>> : x \in S}

NoCall ==
    [op |-> "none", val |-> Undef, key |-> 0, from |-> <<>>, limit |-> <<>>,
     order |-> ""]

AddCall(e) == [NoCall EXCEPT !.op = "addEntry", !.val = e]
DeleteCall(k) == [NoCall EXCEPT !.op = "deleteEntry", !.key = k]
GetCall(k) == [NoCall EXCEPT !.op = "getEntry", !.key = k]
FlushCall == [NoCall EXCEPT !.op = "flush"]
FindCall(c) == [NoCall EXCEPT !.op = "findEntry", !.val = c]
DeleteEntriesCall(c) == [NoCall EXCEPT !.op = "deleteEntries", !.val = c]
GetEntriesCall(f, l, o) ==
    [NoCall EXCEPT !.op = "getEntries", !.from = f, !.limit = l, !.order = o]

\* what a settled call left: the value it resolved with (res, or list for
\* getEntries), the error it rejected with (err, "" when it resolved), the
\* mode of the transaction it opened (tx) and the keys of the records its
\* cursor read or its range delete removed (visited)
NoRet ==
    [res |-> Undef, list |-> <<>>, err |-> "", tx |-> "none", visited |-> <<>>]

Max(S) == CHOOSE x \in S : \A y \in S : y <= x
Min(S) == CHOOSE x \in S : \A y \in S : x <= y

RECURSIVE Ascending(_)
Ascending(S) == IF S = {} THEN <<>> ELSE <<Min(S)>> \o Ascending(S \ {Min(S)})

RECURSIVE Descending(_)
Descending(S) == IF S = {} THEN <<>> ELSE <<Max(S)>> \o Descending(S \ {Max(S)})

\* the value of the index key path 'translation.originalText' in a value
IndexKeyOf(value) == GetProp(GetProp(value, "translation"), "originalText").s

\* the index entries of an object store's content
IndexOf(st) == {<<IndexKeyOf(st[k]), k>> : k \in DOMAIN st}

\* faulty variant: the key follows the greatest key that is still stored
GeneratedKeyAfterLast(gen, st) == IF DOMAIN st = {} THEN 1 ELSE Max(DOMAIN st) + 1

\* autoIncrement: the key generator's current number, whatever was deleted
GeneratedKey(gen, st) == gen

\* keyPath 'id': the generated key is injected into the stored clone
InjectKey(entry, key) == Obj(Append(entry.items, Prop("id", Num(key))))

\* faulty variant: a delete removes every record up to the key
DeleteRecordUpTo(st, key) == [k \in {j \in DOMAIN st : j > key} |-> st[k]]

\* store.delete(key)
DeleteRecord(st, key) == [k \in DOMAIN st \ {key} |-> st[k]]

\* store.delete(IDBKeyRange.lowerBound(0))
\* faulty variant: the range starts above the first generated key
DeleteAboveOne(st) == [k \in {j \in DOMAIN st : ~(j > 1)} |-> st[k]]

DeleteFromZero(st) == [k \in {j \in DOMAIN st : ~(j >= 0)} |-> st[k]]

\* store.get(key): the stored value, or undefined
getEntryResult(st, key) == IF key \in DOMAIN st THEN st[key] ELSE Undef

RECURSIVE CursorLoop(_, _, _, _, _, _, _, _)
\* the for-await loop of getEntries over the cursor at position pos of keys;
\* the iterator calls cursor.continue() unless the body called cursor.advance
CursorLoop(st, keys, pos, isJumped, counter, entries, from, limit) ==
    IF pos > Len(keys) THEN entries
    ELSE IF ~isJumped /\ from # <<>> /\ from[1] > 0
    THEN CursorLoop(st, keys, pos + from[1], TRUE, counter, entries, from, limit)
    ELSE IF limit # <<>> /\ counter + 1 > limit[1] THEN entries
    ELSE CursorLoop(st, keys, pos + 1, isJumped,
                    IF limit # <<>> THEN counter + 1 ELSE counter,
                    Append(entries, [key |-> keys[pos], data |-> st[keys[pos]]]),
                    from, limit)

\* const { order = 'desc' } = options ?? {}
OrderOf(o) == IF o = "" THEN "desc" ELSE o

\* faulty variant: the record under the cursor is collected before the jump
getEntriesResultNoContinue(st, from, limit, order) ==
    LET keys == IF OrderOf(order) = "desc" THEN Descending(DOMAIN st)
                ELSE Ascending(DOMAIN st)
    IN  IF keys # <<>> /\ from # <<>> /\ from[1] > 0 /\ (limit = <<>> \/ limit[1] > 0)
        THEN CursorLoop(st, keys, 1 + from[1], TRUE,
                        IF limit # <<>> THEN 1 ELSE 0,
                        <<[key |-> keys[1], data |-> st[keys[1]]]>>, from, limit)
        ELSE CursorLoop(st, keys, 1, FALSE, 0, <<>>, from, limit)

\* faulty variant: the default order is used whatever the options say
getEntriesResultDefaultOrder(st, from, limit, order) ==
    CursorLoop(st, Descending(DOMAIN st), 1, FALSE, 0, <<>>, from, limit)

\* getEntries(from, limit, options): from and limit are <<>> when undefined
getEntriesResult(st, from, limit, order) ==
    LET keys == IF OrderOf(order) = "desc" THEN Descending(DOMAIN st)
                ELSE Ascending(DOMAIN st)
    IN  CursorLoop(st, keys, 1, FALSE, 0, <<>>, from, limit)

\* entry?.translation?.originalText
OriginalTextOf(criteria) ==
    IF criteria.t \in {"null", "undefined"} THEN Undef
    ELSE LET tr == GetProp(criteria, "translation")
         IN  IF tr.t \in {"null", "undefined"} THEN Undef
             ELSE GetProp(tr, "originalText")

\* faulty variant: the cursor runs from the last record to the first
IndexBucketDescending(idx, text) == Descending({e[2] : e \in {x \in idx : x[1] = text}})

\* the primary keys index.iterate(text) yields, in its order
IndexBucket(idx, text) == Ascending({e[2] : e \in {x \in idx : x[1] = text}})

\* the index keys of the model, in the order of the index
IndexTexts == <<"x", "y">>

RECURSIVE AllBuckets(_, _)
AllBuckets(idx, i) ==
    IF i > Len(IndexTexts) THEN <<>>
    ELSE IndexBucket(idx, IndexTexts[i]) \o AllBuckets(idx, i + 1)

\* the primary keys index.iterate(query) yields: every record of the index
\* when the query is undefined
IndexRange(idx, query) ==
    IF query = Undef THEN AllBuckets(idx, 1) ELSE IndexBucket(idx, query.s)

\* entry[key] === currentEntry.translation[key]: the stored value is a
\* clone, so an array or an object in it is never the criteria's own
StrictEqualsStored(a, b) ==
    /\ a.t \notin {"array", "object"}
    /\ b.t \notin {"array", "object"}
    /\ a.t = b.t /\ a.n = b.n /\ a.s = b.s

\* faulty variant: only the indexed field is compared
TranslationMatchesText(entry, value) ==
    Outcome(StrictEqualsStored(GetProp(entry, "originalText"),
                               GetProp(GetProp(value, "translation"), "originalText")))

\* Object.keys(entry).every((key) => entry[key] === currentEntry.translation[key])
TranslationMatches(entry, value) ==
    LET tr == GetProp(value, "translation")
    IN  IF Len(entry.items) > 0 /\ KeysThrows(tr) THEN "TypeError"
        ELSE Outcome(\A i \in 1..Len(entry.items) :
                        StrictEqualsStored(entry.items[i].v, GetProp(tr, entry.items[i].k)))

RECURSIVE FindLoop(_, _, _, _)
\* the for-await loop of findEntry from the i-th record of the bucket
FindLoop(st, criteria, keys, i) ==
    IF i > Len(keys)
    THEN [NoRet EXCEPT !.res = Null, !.tx = "readonly", !.visited = keys]
    ELSE LET m == isEqualIntersection(criteria, st[keys[i]])
         IN  IF m = "true"
             THEN [NoRet EXCEPT
                     !.res = Obj(<<Prop("key", Num(keys[i])), Prop("data", st[keys[i]])>>),
                     !.tx = "readonly", !.visited = SubSeq(keys, 1, i)]
             ELSE IF m = "false" THEN FindLoop(st, criteria, keys, i + 1)
             ELSE [NoRet EXCEPT !.err = "TypeError", !.tx = "readonly",
                                !.visited = SubSeq(keys, 1, i)]

\* findEntry after getDB: the transaction is opened, then originalText is
\* checked, then the index is scanned
findEntryResult(st, idx, criteria) ==
    IF OriginalTextOf(criteria) = Undef
    THEN [NoRet EXCEPT !.err = "Error", !.tx = "readonly"]
    ELSE FindLoop(st, criteria, IndexBucket(idx, OriginalTextOf(criteria).s), 1)

(***************************************************************************)
(* Transactions.  Every operation runs in one transaction on the object    *)
(* store 'translations'; the engine starts a transaction only when no      *)
(* readwrite transaction on the same store is in progress, keeps the       *)
(* index in step with the records, and on an abort puts back what the      *)
(* transaction found.                                                      *)
(***************************************************************************)
\* no transaction in progress
NoTx ==
    [owner |-> 0, snapshot |-> <<>>, idx |-> {}, bucket |-> <<>>, pos |-> 0,
     visited |-> <<>>]

\* faulty variant: a transaction starts whatever else is in progress
TxFreeAlways == TRUE

\* db.transaction('translations', mode) starts once no readwrite
\* transaction on 'translations' is in progress
TxFree == tx.owner = 0

\* faulty variant: after a deletion under the cursor, the record that took
\* the place of the deleted one is passed over
CursorAfterSkipping(pos, deleted) == IF deleted THEN pos + 2 ELSE pos + 1

\* the place of the cursor in its range after continue(): the next record,
\* whether or not the record under the cursor was deleted
CursorAfter(pos, deleted) == pos + 1

\* faulty variant: an aborted transaction leaves what it had written
AbortKeepsWork(snapshot, current) == current

\* the content after the transaction aborted: what it found when it started
Abort(snapshot, current) == snapshot

\* faulty variant: the index keeps the entries of deleted records
IndexWithoutStale(idx, keys) == idx

\* the index after the records under keys are deleted
IndexWithout(idx, keys) == {e \in idx : e[2] \notin keys}

(***************************************************************************)
(* The operations, as steps of their callers.                              *)
(***************************************************************************)
StoreInit ==
    /\ DBInstance = 0
    /\ opens = 0
    /\ nHandles = 0
    /\ dbVersion = 0
    /\ upgrades = 0
    /\ store = <<>>
    /\ index = {}
    /\ keyGen = 1
    /\ pc = [p \in Callers |-> "idle"]
    /\ call = [p \in Callers |-> NoCall]
    /\ db = [p \in Callers |-> 0]
    /\ ret = [p \in Callers |-> NoRet]
    /\ addLog = <<>>
    /\ tx = NoTx
    /\ committed = <<>>

MatchIdle == obj1 = Undef /\ obj2 = Undef /\ mres = "none"

\* a getTranslateManager call that was not made: nothing awaited (promise),
\* nothing received (value)
NoGet == [state |-> "idle", promise |-> 0, value |-> 0]

\* a Background after construction (index.ts:169-176), its configuration
\* storage holding the first configuration
LatchInit ==
    /\ translateManager = 0
    /\ translateManagerPromise = 0
    /\ promises = <<>>
    /\ cleared = {}
    /\ managers = <<>>
    /\ config = 1
    /\ updates = 0
    /\ starts = <<>>
    /\ got = [p \in Callers |-> NoGet]

PendingAdds == Cardinality({p \in Callers : call[p].op = "addEntry"})

\* the model stops issuing addEntry after max of them
CanIssue(c, max) == c.op = "addEntry" => Len(addLog) + PendingAdds < max

\* faulty variant: the upgrade callback runs at every open
NeedsUpgradeAlways(version) == TRUE

\* openDB runs the upgrade callback when the database is older than the
\* version asked for
NeedsUpgrade(version) == version < DBVersion

\* faulty variant: a rejected open leaves a handle in DBInstance
InstanceAfterRejectSet(instance) == instance + 1

\* DBInstance after `DBInstance = await IDB.openDB(...)` threw
InstanceAfterReject(instance) == instance

\* a caller calls an operation: the operation calls getDB, which returns the
\* handle if there is one and calls IDB.openDB otherwise (data.ts:47-48)
Call(p, c) ==
    /\ pc[p] = "idle"
    /\ call' = [call EXCEPT ![p] = c]
    /\ IF DBInstance = 0
       THEN /\ opens' = opens + 1
            /\ pc' = [pc EXCEPT ![p] = "opening"]
            /\ db' = db
       ELSE /\ opens' = opens
            /\ pc' = [pc EXCEPT ![p] = "ready"]
            /\ db' = [db EXCEPT ![p] = DBInstance]
    /\ UNCHANGED <<DBInstance, nHandles, dbVersion, upgrades, store, index,
                   keyGen, ret, addLog, tx, committed, matchVars, latchVars>>

\* IDB.openDB resolves: the upgrade callback has run if the database was
\* older than version 1, the handle is assigned to DBInstance and returned
OpenDone(p) ==
    /\ pc[p] = "opening"
    /\ nHandles' = nHandles + 1
    /\ IF NeedsUpgrade(dbVersion)
       THEN dbVersion' = DBVersion /\ upgrades' = upgrades + 1
       ELSE UNCHANGED <<dbVersion, upgrades>>
    /\ DBInstance' = nHandles + 1
    /\ db' = [db EXCEPT ![p] = nHandles + 1]
    /\ pc' = [pc EXCEPT ![p] = "ready"]
    /\ UNCHANGED <<opens, store, index, keyGen, call, ret, addLog, tx,
                   committed, matchVars, latchVars>>

Settle(p, r) ==
    /\ pc' = [pc EXCEPT ![p] = "done"]
    /\ ret' = [ret EXCEPT ![p] = r]

\* the calls of IDB.openDB that were rejected
OpenFails == opens - nHandles - Cardinality({p \in Callers : pc[p] = "opening"})

\* IDB.openDB rejects: the await in getDB throws before the assignment to
\* DBInstance, getDB rejects and so does the operation that called it; an
\* upgrade in progress is rolled back with the open
OpenFail(p) ==
    /\ pc[p] = "opening"
    /\ OpenFails < MaxOpenFails
    /\ DBInstance' = InstanceAfterReject(DBInstance)
    /\ Settle(p, [NoRet EXCEPT !.err = "OpenError"])
    /\ UNCHANGED <<opens, nHandles, dbVersion, upgrades, store, index, keyGen,
                   call, db, addLog, tx, committed, matchVars, latchVars>>

\* db.add('translations', entry)
ExecAdd(p) ==
    /\ pc[p] = "ready" /\ call[p].op = "addEntry"
    /\ TxFree
    /\ LET key == GeneratedKey(keyGen, store)
           value == InjectKey(call[p].val, key)
       IN  /\ store' = [k \in DOMAIN store \cup {key} |->
                          IF k = key THEN value ELSE store[k]]
           /\ index' = index \cup {<<IndexKeyOf(value), key>>}
           /\ keyGen' = key + 1
           /\ addLog' = Append(addLog, [key |-> key, entry |-> call[p].val,
                                        before |-> DOMAIN store])
           /\ committed' = store'
           /\ Settle(p, [NoRet EXCEPT !.res = Num(key), !.tx = "readwrite"])
    /\ UNCHANGED <<DBInstance, opens, nHandles, dbVersion, upgrades, call, db,
                   tx, matchVars, latchVars>>

\* db.delete('translations', entryId)
ExecDelete(p) ==
    /\ pc[p] = "ready" /\ call[p].op = "deleteEntry"
    /\ TxFree
    /\ store' = DeleteRecord(store, call[p].key)
    /\ index' = IndexWithout(index, DOMAIN store \ DOMAIN store')
    /\ committed' = store'
    /\ Settle(p, [NoRet EXCEPT !.tx = "readwrite"])
    /\ UNCHANGED <<DBInstance, opens, nHandles, dbVersion, upgrades, keyGen,
                   call, db, addLog, tx, matchVars, latchVars>>

\* db.get('translations', entryId)
ExecGet(p) ==
    /\ pc[p] = "ready" /\ call[p].op = "getEntry"
    /\ TxFree
    /\ Settle(p, [NoRet EXCEPT !.res = getEntryResult(store, call[p].key),
                               !.tx = "readonly"])
    /\ UNCHANGED <<DBInstance, opens, nHandles, dbVersion, upgrades, store,
                   index, keyGen, call, db, addLog, tx, committed, matchVars, latchVars>>

\* flush
ExecFlush(p) ==
    /\ pc[p] = "ready" /\ call[p].op = "flush"
    /\ TxFree
    /\ store' = DeleteFromZero(store)
    /\ index' = IndexWithout(index, DOMAIN store \ DOMAIN store')
    /\ committed' = store'
    /\ Settle(p, [NoRet EXCEPT !.tx = "readwrite",
                               !.visited = Ascending(DOMAIN store \ DOMAIN store')])
    /\ UNCHANGED <<DBInstance, opens, nHandles, dbVersion, upgrades, keyGen,
                   call, db, addLog, tx, matchVars, latchVars>>

\* getEntries
ExecGetEntries(p) ==
    /\ pc[p] = "ready" /\ call[p].op = "getEntries"
    /\ TxFree
    /\ LET list == getEntriesResult(store, call[p].from, call[p].limit, call[p].order)
       IN  Settle(p, [NoRet EXCEPT !.list = list, !.tx = "readonly"])
    /\ UNCHANGED <<DBInstance, opens, nHandles, dbVersion, upgrades, store,
                   index, keyGen, call, db, addLog, tx, committed, matchVars, latchVars>>

\* findEntry
ExecFind(p) ==
    /\ pc[p] = "ready" /\ call[p].op = "findEntry"
    /\ TxFree
    /\ Settle(p, findEntryResult(store, index, call[p].val))
    /\ UNCHANGED <<DBInstance, opens, nHandles, dbVersion, upgrades, store,
                   index, keyGen, call, db, addLog, tx, committed, matchVars, latchVars>>

\* deleteEntries after getDB: the readwrite transaction starts and the
\* cursor is opened on the index at entry.originalText
BulkBegin(p) ==
    /\ pc[p] = "ready" /\ call[p].op = "deleteEntries"
    /\ TxFree
    /\ tx' = [owner |-> p, snapshot |-> store, idx |-> index,
              bucket |-> IndexRange(index, GetProp(call[p].val, "originalText")),
              pos |-> 1, visited |-> <<>>]
    /\ pc' = [pc EXCEPT ![p] = "scanning"]
    /\ UNCHANGED <<DBInstance, opens, nHandles, dbVersion, upgrades, store,
                   index, keyGen, call, db, ret, addLog, committed, matchVars, latchVars>>

\* one turn of the for-await loop of deleteEntries: the record under the
\* cursor is compared and, if it matches, deleted through the cursor; an
\* exception of the comparison ends the call without aborting the
\* transaction, which then commits what was deleted
BulkStep(p) ==
    /\ pc[p] = "scanning" /\ tx.owner = p
    /\ tx.pos <= Len(tx.bucket)
    /\ LET key == tx.bucket[tx.pos]
           m == TranslationMatches(call[p].val, store[key])
           seen == Append(tx.visited, key)
       IN  IF m = "TypeError"
           THEN /\ Settle(p, [NoRet EXCEPT !.err = "TypeError", !.tx = "readwrite",
                                           !.visited = seen])
                /\ tx' = NoTx
                /\ committed' = store
                /\ UNCHANGED <<store, index>>
           ELSE /\ store' = IF m = "true" THEN DeleteRecord(store, key) ELSE store
                /\ index' = IndexWithout(index, DOMAIN store \ DOMAIN store')
                /\ tx' = [tx EXCEPT !.pos = CursorAfter(tx.pos, m = "true"),
                                    !.visited = seen]
                /\ UNCHANGED <<pc, ret, committed>>
    /\ UNCHANGED <<DBInstance, opens, nHandles, dbVersion, upgrades, keyGen,
                   call, db, addLog, matchVars, latchVars>>

\* a request of the transaction fails: the transaction aborts and the call
\* rejects
BulkFail(p) ==
    /\ pc[p] = "scanning" /\ tx.owner = p
    /\ store' = Abort(tx.snapshot, store)
    /\ index' = Abort(tx.idx, index)
    /\ tx' = NoTx
    /\ Settle(p, [NoRet EXCEPT !.err = "AbortError", !.tx = "readwrite",
                               !.visited = tx.visited])
    /\ UNCHANGED <<DBInstance, opens, nHandles, dbVersion, upgrades, keyGen,
                   call, db, addLog, committed, matchVars, latchVars>>

\* the cursor is exhausted: await transaction.done
BulkCommit(p) ==
    /\ pc[p] = "scanning" /\ tx.owner = p
    /\ tx.pos > Len(tx.bucket)
    /\ committed' = store
    /\ tx' = NoTx
    /\ Settle(p, [NoRet EXCEPT !.tx = "readwrite", !.visited = tx.visited])
    /\ UNCHANGED <<DBInstance, opens, nHandles, dbVersion, upgrades, store,
                   index, keyGen, call, db, addLog, matchVars, latchVars>>

\* the caller takes the outcome of its call
Return(p) ==
    /\ pc[p] = "done"
    /\ pc' = [pc EXCEPT ![p] = "idle"]
    /\ call' = [call EXCEPT ![p] = NoCall]
    /\ db' = [db EXCEPT ![p] = 0]
    /\ ret' = [ret EXCEPT ![p] = NoRet]
    /\ UNCHANGED <<DBInstance, opens, nHandles, dbVersion, upgrades, store,
                   index, keyGen, addLog, tx, committed, matchVars, latchVars>>

(***************************************************************************)
(* The translate manager of Background (modules/Background/index.ts).      *)
(* JavaScript runs one callback at a time, so each action is one           *)
(* synchronous stretch of code between two awaits.                         *)
(***************************************************************************)
\* the fields of Background the watcher reads and writes
Latch ==
    [tm |-> translateManager, tmp |-> translateManagerPromise,
     promises |-> promises, managers |-> managers]

\* resolve(value) of a promise: nothing happens when it is settled already
Resolve(ps, i, value) == IF ps[i] = 0 THEN [ps EXCEPT ![i] = value] ELSE ps

\* faulty variant: the watcher constructs a TranslatorManager every time
OnConfigReplace(l, c) ==
    LET m == Len(l.managers) + 1
    IN  [l EXCEPT !.tm = m, !.managers = Append(@, c),
                  !.promises = IF l.tmp # 0 THEN Resolve(@, l.tmp, m) ELSE @]

\* the callback of $translateManagerConfig.watch, index.ts:242-254
OnConfig(l, c) ==
    IF l.tm = 0
    THEN LET m == Len(l.managers) + 1
         IN  [l EXCEPT !.tm = m, !.managers = Append(@, c),
                       !.promises = IF l.tmp # 0 THEN Resolve(@, l.tmp, m) ELSE @]
    ELSE [l EXCEPT !.managers[l.tm] = c]

RECURSIVE Notify(_, _, _)
\* the store calls each of its n watchers with the new value
Notify(l, c, n) == IF n = 0 THEN l ELSE Notify(OnConfig(l, c), c, n - 1)

\* the watchers start() has registered on $translateManagerConfig
Watchers == Cardinality({i \in 1..Len(starts) : starts[i] = "watching"})

SetLatch(l) ==
    /\ translateManager' = l.tm
    /\ translateManagerPromise' = l.tmp
    /\ promises' = l.promises
    /\ managers' = l.managers

\* getTranslateManager(), index.ts:177-199
GetTranslateManager(p) ==
    /\ got[p].state = "idle"
    /\ (translateManager = 0 /\ translateManagerPromise = 0)
          => Len(promises) < MaxPromises
    /\ IF translateManager = 0
       THEN /\ IF translateManagerPromise = 0
               THEN /\ promises' = Append(promises, 0)
                    /\ translateManagerPromise' = Len(promises) + 1
               ELSE UNCHANGED <<promises, translateManagerPromise>>
            /\ got' = [got EXCEPT ![p] = [state |-> "waiting",
                                          promise |-> translateManagerPromise',
                                          value |-> 0]]
       ELSE /\ got' = [got EXCEPT ![p] = [state |-> "resolved", promise |-> 0,
                                          value |-> translateManager]]
            /\ UNCHANGED <<promises, translateManagerPromise>>
    /\ UNCHANGED <<translateManager, cleared, managers, config, updates, starts,
                   storeVars, matchVars>>

\* the promise a call awaits was resolved: the call resolves with its value
Awake(p) ==
    /\ got[p].state = "waiting"
    /\ promises[got[p].promise] # 0
    /\ got' = [got EXCEPT ![p] = [@ EXCEPT !.state = "resolved",
                                           !.value = promises[got[p].promise]]]
    /\ UNCHANGED <<translateManager, translateManagerPromise, promises, cleared,
                   managers, config, updates, starts, storeVars, matchVars>>

\* the caller takes the manager
Taken(p) ==
    /\ got[p].state = "resolved"
    /\ got' = [got EXCEPT ![p] = NoGet]
    /\ UNCHANGED <<translateManager, translateManagerPromise, promises, cleared,
                   managers, config, updates, starts, storeVars, matchVars>>

\* the finally callback of a settled promise, index.ts:188-192
Finally(i) ==
    /\ i \in 1..Len(promises) /\ promises[i] # 0 /\ i \notin cleared
    /\ cleared' = cleared \cup {i}
    /\ translateManagerPromise' =
          IF translateManagerPromise = i THEN 0 ELSE translateManagerPromise
    /\ UNCHANGED <<translateManager, promises, managers, config, updates, starts,
                   got, storeVars, matchVars>>

\* start() is called: it awaits config.getObservableStore(), index.ts:202
StartCall ==
    /\ Len(starts) < MaxStarts
    /\ starts' = Append(starts, "stores")
    /\ UNCHANGED <<translateManager, translateManagerPromise, promises, cleared,
                   managers, config, updates, got, storeVars, matchVars>>

\* start() from the store to the await of the translators, index.ts:204-240
StartStores(i) ==
    /\ i \in 1..Len(starts) /\ starts[i] = "stores"
    /\ starts' = [starts EXCEPT ![i] = "translators"]
    /\ UNCHANGED <<translateManager, translateManagerPromise, promises, cleared,
                   managers, config, updates, got, storeVars, matchVars>>

\* start() registers the watcher, index.ts:242: watch calls it at once with
\* the current value
StartWatch(i) ==
    /\ i \in 1..Len(starts) /\ starts[i] = "translators"
    /\ starts' = [starts EXCEPT ![i] = "watching"]
    /\ SetLatch(OnConfig(Latch, config))
    /\ UNCHANGED <<cleared, config, updates, got, storeVars, matchVars>>

\* one of the two awaits of start() rejects: start() ends without a watcher
StartFail(i) ==
    /\ i \in 1..Len(starts) /\ starts[i] \in {"stores", "translators"}
    /\ starts' = [starts EXCEPT ![i] = "failed"]
    /\ UNCHANGED <<translateManager, translateManagerPromise, promises, cleared,
                   managers, config, updates, got, storeVars, matchVars>>

\* the configuration changes: the store calls its watchers
ConfigUpdate(c) ==
    /\ updates < MaxUpdates
    /\ c # config
    /\ config' = c
    /\ updates' = updates + 1
    /\ SetLatch(Notify(Latch, c, Watchers))
    /\ UNCHANGED <<cleared, starts, got, storeVars, matchVars>>

StoreCalls ==
    {AddCall(e) : e \in StoreEntries} \cup {DeleteCall(k) : k \in 1..MaxAdds}
      \cup {GetCall(k) : k \in 1..MaxAdds} \cup {FlushCall}
      \cup {FindCall(c) : c \in Criteria}

PageCalls ==
    {AddCall(e) : e \in PageEntries} \cup {DeleteCall(k) : k \in 1..MaxPageAdds}
      \cup {GetEntriesCall(f, l, o) :
              f \in Optional({0, 1, MaxFrom}), l \in Optional({0, 1, MaxLimit}),
              o \in {"", "asc", "desc"}}

BulkCalls ==
    {AddCall(e) : e \in Entries} \cup {DeleteCall(k) : k \in 1..MaxPageAdds}
      \cup {FlushCall} \cup {FindCall(c) : c \in Criteria}
      \cup {DeleteEntriesCall(c) : c \in BulkCriteria}

\* the calls of the callers that share the collection: they add records of
\* one originalText, remove them in bulk and read
IsoCalls ==
    {AddCall(Entry("x", "e")), AddCall(Entry("y", "e")), FlushCall,
     DeleteEntriesCall(Obj(<<Prop("originalText", Str("x"))>>)),
     GetCall(1), GetEntriesCall(<<>>, <<>>, ""),
     FindCall(Obj(<<Prop("translation", Obj(<<Prop("originalText", Str("x"))>>))>>))}

\* the calls of the callers around the opening of the database
OpenCalls == {AddCall(Entry("x", "e")), GetCall(1), FlushCall}

\* the calls of a caller that removes by a translation and looks it up
AgreeCalls ==
    {AddCall(EntryOf(t)) : t \in AgreeTranslations}
      \cup {DeleteEntriesCall(t) : t \in AgreeTranslations}
      \cup {FindCall(CriteriaOf(t)) : t \in AgreeTranslations}

Init == StoreInit /\ MatchIdle /\ LatchInit

Next ==
    \E p \in Callers :
        \/ \E c \in StoreCalls : CanIssue(c, MaxAdds) /\ Call(p, c)
        \/ OpenDone(p)
        \/ ExecAdd(p)
        \/ ExecDelete(p)
        \/ ExecGet(p)
        \/ ExecFlush(p)
        \/ ExecFind(p)
        \/ Return(p)

Spec == Init /\ [][Next]_vars

PageNext ==
    \/ \E c \in PageCalls : CanIssue(c, MaxPageAdds) /\ Call(1, c)
    \/ OpenDone(1)
    \/ ExecAdd(1)
    \/ ExecDelete(1)
    \/ ExecGetEntries(1)
    \/ Return(1)

SpecPage == Init /\ [][PageNext]_vars

BulkNext ==
    \/ \E c \in BulkCalls : CanIssue(c, MaxPageAdds) /\ Call(1, c)
    \/ OpenDone(1)
    \/ ExecAdd(1)
    \/ ExecDelete(1)
    \/ ExecFlush(1)
    \/ ExecFind(1)
    \/ BulkBegin(1)
    \/ BulkStep(1)
    \/ BulkFail(1)
    \/ BulkCommit(1)
    \/ Return(1)

SpecBulk == Init /\ [][BulkNext]_vars

IsoNext ==
    \E p \in Callers :
        \/ \E c \in IsoCalls : CanIssue(c, MaxAdds) /\ Call(p, c)
        \/ OpenDone(p)
        \/ ExecAdd(p)
        \/ ExecFlush(p)
        \/ ExecGet(p)
        \/ ExecGetEntries(p)
        \/ ExecFind(p)
        \/ BulkBegin(p)
        \/ BulkStep(p)
        \/ BulkFail(p)
        \/ BulkCommit(p)
        \/ Return(p)

SpecIso == Init /\ [][IsoNext]_vars

OpenNext ==
    \E p \in Callers :
        \/ \E c \in OpenCalls : CanIssue(c, MaxAdds) /\ Call(p, c)
        \/ OpenDone(p)
        \/ OpenFail(p)
        \/ ExecAdd(p)
        \/ ExecGet(p)
        \/ ExecFlush(p)
        \/ Return(p)

SpecOpen == Init /\ [][OpenNext]_vars

AgreeNext ==
    \/ \E c \in AgreeCalls : CanIssue(c, MaxAdds) /\ Call(1, c)
    \/ OpenDone(1)
    \/ ExecAdd(1)
    \/ ExecFind(1)
    \/ BulkBegin(1)
    \/ BulkStep(1)
    \/ BulkFail(1)
    \/ BulkCommit(1)
    \/ Return(1)

SpecAgree == Init /\ [][AgreeNext]_vars

LatchNext ==
    \/ \E p \in Callers : GetTranslateManager(p) \/ Awake(p) \/ Taken(p)
    \/ \E i \in 1..MaxPromises : Finally(i)
    \/ StartCall
    \/ \E i \in 1..MaxStarts : StartStores(i) \/ StartWatch(i) \/ StartFail(i)
    \/ \E c \in Configs : ConfigUpdate(c)

SpecLatch == Init /\ [][LatchNext]_vars

MatchNext == Match /\ UNCHANGED <<storeVars, latchVars>>

InitMatch == StoreInit /\ MatchInit /\ LatchInit

SpecMatch == InitMatch /\ [][MatchNext]_vars


(***************************************************************************)
(* Claims.                                                                 *)
(***************************************************************************)

\* C1: operations issued concurrently before the handle is opened all get
\* the same handle: IDB.openDB is called at most once, it resolves with at
\* most one handle, and no pending operation holds a handle other than the
\* one assigned to DBInstance.
C1_SameHandle ==
    /\ opens <= 1
    /\ nHandles <= 1
    /\ \A p \in Callers : db[p] # 0 => db[p] = DBInstance

\* C2: round trip: a getEntry of a key returned by addEntry(e), while the
\* record is stored, resolves with a value deep-equal to e (exactly the
\* fields and values of e).
C2_RoundTrip ==
    \A p \in Callers :
        (pc[p] = "done" /\ call[p].op = "getEntry" /\ call[p].key \in DOMAIN store)
            => \A i \in 1..Len(addLog) :
                  addLog[i].key = call[p].key => isEqual(ret[p].res, addLog[i].entry)

\* C3: every key returned by addEntry is strictly greater than every key
\* returned by an earlier addEntry, whatever was deleted or flushed in
\* between; the key an addEntry resolves with is the key it was logged with.
C3_KeysIncrease ==
    /\ \A i, j \in 1..Len(addLog) : i < j => addLog[i].key < addLog[j].key
    /\ \A p \in Callers :
          (pc[p] = "done" /\ call[p].op = "addEntry")
              => \E i \in 1..Len(addLog) : ret[p].res = Num(addLog[i].key)

\* C3 witness: an addEntry has returned a key after every record added
\* before it had been removed again.
C3_Witness ==
    /\ Len(addLog) >= 2
    /\ addLog[Len(addLog)].before = {}
    /\ \E p \in Callers :
          /\ pc[p] = "done" /\ call[p].op = "addEntry"
          /\ ret[p].res = Num(addLog[Len(addLog)].key)

\* C4: a deleteEntry(k) step resolves without error, leaves no record under
\* k (getEntry(k) is then absent), leaves every other record as it was, and
\* changes nothing at all when k was not stored.
C4_DeleteFinal ==
    [][\A p \in Callers :
          (pc[p] = "ready" /\ call[p].op = "deleteEntry" /\ pc'[p] = "done")
              => /\ ret'[p].err = ""
                 /\ getEntryResult(store', call[p].key) = Undef
                 /\ DOMAIN store' = DOMAIN store \ {call[p].key}
                 /\ \A k \in DOMAIN store' : store'[k] = store[k]
                 /\ call[p].key \notin DOMAIN store
                        => store' = store /\ index' = index]_vars

\* C4 witness: deleteEntry(k) of a key that had been added has returned
\* twice (for the second call the key was already gone), and another
\* record is still stored.
C4_Witness ==
    /\ Len(addLog) >= 2
    /\ DOMAIN store # {}
    /\ \A p \in Callers :
          /\ pc[p] = "done" /\ call[p].op = "deleteEntry"
          /\ call[p].key = addLog[1].key
          /\ ret[p].err = ""

\* C10: a findEntry that fails for want of translation.originalText has
\* opened no transaction and read no record before it failed.
C10_NoPartialWork ==
    \A p \in Callers :
        (pc[p] = "done" /\ call[p].op = "findEntry" /\ ret[p].err = "Error")
            => ret[p].tx = "none" /\ ret[p].visited = <<>>


\* the number of stored records
NRecords == Cardinality(DOMAIN store)

\* the key at position pos (from 0) of the collection in the given order:
\* the key with exactly pos keys before it
KeyAt(pos, order) ==
    CHOOSE k \in DOMAIN store :
        Cardinality({j \in DOMAIN store :
                        IF order = "asc" THEN j < k ELSE j > k}) = pos

\* the records at positions first .. first+count-1 of the collection
Page(first, count, order) ==
    [i \in 1..count |->
        [key |-> KeyAt(first + i - 1, order), data |-> store[KeyAt(first + i - 1, order)]]]

\* C5: with N records stored, getEntries(0, N, desc) returns all N in
\* strictly decreasing key order, getEntries(undefined, undefined, asc) all
\* N in increasing key order, and for every 0 <= k <= N and either order
\* getEntries(0, k) followed by getEntries(k, N-k) is getEntries(0, N).
C5_Pagination ==
    /\ LET r == getEntriesResult(store, <<0>>, <<NRecords>>, "desc")
       IN  /\ Len(r) = NRecords
           /\ {r[i].key : i \in 1..Len(r)} = DOMAIN store
           /\ \A i \in 1..Len(r) : r[i].data = store[r[i].key]
           /\ \A i, j \in 1..Len(r) : i < j => r[i].key > r[j].key
    /\ LET r == getEntriesResult(store, <<>>, <<>>, "asc")
       IN  /\ Len(r) = NRecords
           /\ {r[i].key : i \in 1..Len(r)} = DOMAIN store
           /\ \A i \in 1..Len(r) : r[i].data = store[r[i].key]
           /\ \A i, j \in 1..Len(r) : i < j => r[i].key < r[j].key
    /\ \A k \in 0..NRecords, o \in {"", "asc", "desc"} :
          getEntriesResult(store, <<0>>, <<k>>, o)
              \o getEntriesResult(store, <<k>>, <<NRecords - k>>, o)
            = getEntriesResult(store, <<0>>, <<NRecords>>, o)

\* C5 witness: a second page, getEntries(1, limit), has been returned from
\* a collection of at least three records and holds more than one record.
C5_Witness ==
    /\ NRecords >= 3
    /\ pc[1] = "done" /\ call[1].op = "getEntries"
    /\ call[1].from = <<1>> /\ call[1].limit # <<>>
    /\ Len(ret[1].list) >= 2

\* C6: from is a number of records to skip and limit a number of records
\* to return: getEntries(from, limit, order) is the records at positions
\* from .. from+limit-1 of the collection in key order (descending unless
\* asc is asked for), an absent from being 0 and an absent limit no limit;
\* so from >= N or limit = 0 give the empty sequence and absent from and
\* limit give the whole collection.
C6_Offset ==
    \A f \in Optional(0..MaxFrom), l \in Optional(0..MaxLimit),
       o \in {"", "asc", "desc"} :
        LET first == IF f = <<>> THEN 0 ELSE f[1]
            rest == IF NRecords > first THEN NRecords - first ELSE 0
            count == IF l = <<>> \/ l[1] > rest THEN rest ELSE l[1]
            r == getEntriesResult(store, f, l, o)
        IN  /\ r = Page(first, count, IF o = "asc" THEN "asc" ELSE "desc")
            /\ first >= NRecords => r = <<>>
            /\ l = <<0>> => r = <<>>
            /\ (f = <<>> /\ l = <<>>) => Len(r) = NRecords
            /\ \A p \in Callers :
                  (/\ pc[p] = "done" /\ call[p].op = "getEntries"
                   /\ call[p].from = f /\ call[p].limit = l /\ call[p].order = o)
                      => ret[p].list = r /\ ret[p].err = ""

\* C6 witness: getEntries in ascending order with from at or beyond the
\* size of a non-empty collection has returned the empty sequence.
C6_Witness ==
    /\ NRecords >= 1
    /\ pc[1] = "done" /\ call[1].op = "getEntries"
    /\ call[1].from # <<>> /\ call[1].from[1] >= NRecords
    /\ call[1].limit # <<0>>
    /\ call[1].order = "asc"
    /\ ret[1].list = <<>>


\* C7: for two keyed records the match is one-directional: it holds iff
\* for every key of the criteria the match of criteria[key] against
\* candidate[key] holds, the keys only the candidate has being ignored;
\* {a:1} matches {a:1,b:2} and {a:1,b:2} does not match {a:1}.
C7_OneDirectional ==
    /\ (mres # "none" /\ obj1.t = "object" /\ obj2.t = "object")
          => (mres = "true"
                <=> \A i \in 1..Len(obj1.items) :
                       isEqualIntersection(obj1.items[i].v,
                                           GetProp(obj2, obj1.items[i].k)) = "true")
    /\ (mres # "none" /\ obj1.t = "object" /\ obj2.t = "object")
          => \A extra \in InnerValues :
                ~HasOwn(obj2, "c")
                    => isEqualIntersection(
                          obj1, Obj(Append(obj2.items, Prop("c", extra)))) = mres
    /\ isEqualIntersection(Obj(<<Prop("a", Num(1))>>),
                           Obj(<<Prop("a", Num(1)), Prop("b", Num(2))>>)) = "true"
    /\ isEqualIntersection(Obj(<<Prop("a", Num(1)), Prop("b", Num(2))>>),
                           Obj(<<Prop("a", Num(1))>>)) = "false"

\* C7 witness: {a:1} has been matched against {a:1,b:2}, and matched.
C7_Witness ==
    /\ obj1 = Obj(<<Prop("a", Num(1))>>)
    /\ obj2 = Obj(<<Prop("a", Num(1)), Prop("b", Num(2))>>)
    /\ mres = "true"

\* C8: for two primitives (string, number, boolean, null, undefined) the
\* match returns the boolean criteria === candidate and raises no error.
C8_Primitives ==
    (mres # "none" /\ obj1 \in Primitives /\ obj2 \in Primitives)
        => mres = Outcome(obj1 = obj2)

\* C9: two sequences match iff they have the same length and deep-equal
\* elements in the same order; a sequence and anything that is not a
\* sequence never match, whichever of the two is the criteria.
C9_Sequences ==
    mres # "none"
        => /\ (IsArray(obj1) /\ IsArray(obj2))
                => (mres = "true"
                      <=> /\ Len(obj1.items) = Len(obj2.items)
                          /\ \A i \in 1..Len(obj1.items) :
                                isEqual(obj1.items[i].v, obj2.items[i].v))
           /\ (IsArray(obj1) /\ IsArray(obj2)) => mres \in {"true", "false"}
           /\ (IsArray(obj1) # IsArray(obj2)) => mres = "false"

\* C9 witness: [1] has been matched against [1,2], and did not match.
C9_Witness ==
    /\ obj1 = Arr(<<Num(1)>>)
    /\ obj2 = Arr(<<Num(1), Num(2)>>)
    /\ mres = "false"


\* the keys of the stored records with the originalText of the criteria
\* that the criteria partial-match
Matching(st, criteria) ==
    {k \in DOMAIN st :
        /\ IndexKeyOf(st[k]) = OriginalTextOf(criteria).s
        /\ isEqualIntersection(criteria, st[k]) = "true"}

\* C11: a findEntry whose criteria have translation.originalText resolves
\* without error: with null when no stored record matches, otherwise with
\* {key, data} of the matching record of the least key among the records
\* of that originalText.
C11_FirstMatch ==
    [][\A p \in Callers :
          (/\ pc[p] = "ready" /\ call[p].op = "findEntry" /\ pc'[p] = "done"
           /\ OriginalTextOf(call[p].val) # Undef)
              => LET M == Matching(store, call[p].val)
                 IN  /\ ret'[p].err = ""
                     /\ M = {} => ret'[p].res = Null
                     /\ M # {} =>
                           ret'[p].res = Obj(<<Prop("key", Num(Min(M))),
                                               Prop("data", store[Min(M)])>>)]_vars

\* C11 witness: findEntry has returned the first of two matching records.
C11_Witness ==
    \E p \in Callers :
        /\ pc[p] = "done" /\ call[p].op = "findEntry"
        /\ OriginalTextOf(call[p].val) # Undef
        /\ Cardinality(Matching(store, call[p].val)) >= 2
        /\ ret[p].res = Obj(<<Prop("key", Num(Min(Matching(store, call[p].val)))),
                              Prop("data", store[Min(Matching(store, call[p].val))])>>)


\* the translation of a record has, for every key of the criteria, the
\* value the criteria have for it
Qualifies(criteria, value) ==
    \A i \in 1..Len(criteria.items) :
        LET tr == GetProp(value, "translation")
        IN  /\ HasOwn(tr, criteria.items[i].k)
            /\ GetProp(tr, criteria.items[i].k) = criteria.items[i].v

\* C12: a deleteEntries(criteria) that resolves has removed exactly the
\* records that qualified when it was called; every other record is still
\* stored under its key with its data, and getEntry of its key returns it.
C12_ExactSubset ==
    [][\A p \in Callers :
          (pc[p] = "scanning" /\ pc'[p] = "done" /\ ret'[p].err = "")
              => LET before == tx.snapshot
                     kept == {k \in DOMAIN before : ~Qualifies(call[p].val, before[k])}
                 IN  /\ DOMAIN store' = kept
                     /\ \A k \in kept : /\ store'[k] = before[k]
                                         /\ getEntryResult(store', k) = before[k]]_vars

\* C12 witness: of the three records x/e, x/f and y/e, deleteEntries of
\* the translation x/e has removed the first and left the other two.
C12_Witness ==
    /\ Len(addLog) = 3
    /\ pc[1] = "done" /\ call[1] = DeleteEntriesCall(Translation("x", "e"))
    /\ ret[1].err = ""
    /\ Cardinality(DOMAIN store) = 2
    /\ \E j, k \in DOMAIN store :
          /\ GetProp(store[j], "translation") = Translation("x", "f")
          /\ GetProp(store[k], "translation") = Translation("y", "e")


\* C13: a deleteEntries that fails after it started scanning reports an
\* error and leaves the collection with exactly the records of the last
\* commit, which are the records it held when the call started.
C13_AllOrNothing ==
    [][\A p \in Callers :
          (pc[p] = "scanning" /\ pc'[p] = "done" /\ ret'[p].err # "")
              => /\ store' = committed
                 /\ committed' = committed
                 /\ tx.snapshot = committed]_vars

\* C13 witness: a deleteEntries has failed after its cursor had deleted
\* one qualifying record and before it reached another one; both are
\* stored.
C13_Witness ==
    \E p \in Callers :
        /\ pc[p] = "done" /\ call[p].op = "deleteEntries" /\ ret[p].err = "AbortError"
        /\ \E i \in 1..Len(ret[p].visited) :
              /\ ret[p].visited[i] \in DOMAIN store
              /\ Qualifies(call[p].val, store[ret[p].visited[i]])
        /\ \E k \in DOMAIN store :
              /\ Qualifies(call[p].val, store[k])
              /\ \A i \in 1..Len(ret[p].visited) : ret[p].visited[i] # k


\* C14: when flush has returned, the collection is empty and getEntries,
\* with any from, limit and order, returns the empty sequence, whatever
\* the collection held: no stored key lies outside the deleted range.
C14_FlushEmpties ==
    [][\A p \in Callers :
          (pc[p] = "ready" /\ call[p].op = "flush" /\ pc'[p] = "done")
              => /\ ret'[p].err = ""
                 /\ DOMAIN store' = {}
                 /\ \A f \in Optional(0..MaxFrom), l \in Optional(0..MaxLimit),
                       o \in {"", "asc", "desc"} :
                         getEntriesResult(store', f, l, o) = <<>>]_vars

\* C14 witness: a flush has returned that removed two records, one of
\* them under the first key the store assigned.
C14_Witness ==
    \E p \in Callers :
        /\ pc[p] = "done" /\ call[p].op = "flush" /\ ret[p].err = ""
        /\ Len(ret[p].visited) >= 2
        /\ ret[p].visited[1] = addLog[1].key
        /\ DOMAIN store = {}


\* C15: the originalText index holds exactly one entry (originalText, key)
\* for each stored record and no entry for a key that is not stored, in
\* every state, inside a transaction and after an aborted one included.
C15_IndexConsistent ==
    /\ index = IndexOf(store)
    /\ Cardinality(index) = Cardinality(DOMAIN store)
    /\ \A e \in index : e[2] \in DOMAIN store /\ IndexKeyOf(store[e[2]]) = e[1]

\* C15 witness: a deleteEntries is scanning a bucket of two records, has
\* deleted the first of them, and a record of another originalText is
\* stored.
C15_Witness ==
    /\ tx.owner # 0
    /\ Len(tx.bucket) = 2 /\ tx.pos = 2
    /\ tx.bucket[1] \notin DOMAIN store
    /\ tx.bucket[2] \in DOMAIN store
    /\ Cardinality({e[1] : e \in index}) = 2


\* the keys of the records of st with the given originalText, ascending
BucketOf(st, text) == Ascending({k \in DOMAIN st : IndexKeyOf(st[k]) = text})

\* C19: findEntry reads only records of the criteria's originalText, in
\* the order of the bucket, and none after the first record that matches;
\* a deleteEntries that resolves has read every record of the bucket of
\* its originalText once, in order, and no qualifying record is left.
C19_ScanExtent ==
    [][\A p \in Callers :
          /\ (/\ pc[p] = "ready" /\ call[p].op = "findEntry" /\ pc'[p] = "done"
              /\ OriginalTextOf(call[p].val) # Undef)
                => LET seen == ret'[p].visited
                       bucket == BucketOf(store, OriginalTextOf(call[p].val).s)
                   IN  /\ Len(seen) <= Len(bucket)
                       /\ seen = SubSeq(bucket, 1, Len(seen))
                       /\ \A i \in 1..(Len(seen) - 1) :
                             isEqualIntersection(call[p].val, store[seen[i]]) # "true"
                       /\ Len(seen) < Len(bucket)
                             => isEqualIntersection(call[p].val, store[seen[Len(seen)]]) = "true"
          /\ (/\ pc[p] = "scanning" /\ pc'[p] = "done" /\ ret'[p].err = ""
              /\ HasOwn(call[p].val, "originalText"))
                => /\ ret'[p].visited =
                        BucketOf(tx.snapshot, GetProp(call[p].val, "originalText").s)
                   /\ \A k \in DOMAIN store' : ~Qualifies(call[p].val, store'[k])]_vars

\* C19 witness: a deleteEntries has resolved after its cursor read two
\* records of one bucket and deleted both, the second after the first was
\* deleted under the cursor; a record of another bucket is left.
C19_Witness ==
    \E p \in Callers :
        /\ pc[p] = "done" /\ call[p].op = "deleteEntries" /\ ret[p].err = ""
        /\ Len(ret[p].visited) = 2
        /\ \A i \in 1..2 : ret[p].visited[i] \notin DOMAIN store
        /\ DOMAIN store # {}


\* the content a mutation leaves when it is applied at once to content st
AtOnce(c, st) ==
    IF c.op = "flush" THEN [k \in {} |-> Undef]
    ELSE IF c.op = "deleteEntries"
         THEN [k \in {j \in DOMAIN st : ~Qualifies(c.val, st[j])} |-> st[k]]
         ELSE st

\* C16: with several operations in flight, every read returns what it
\* returns on the content of the last commit, so it sees each flush and
\* each deleteEntries entirely or not at all; each commit changes the
\* committed content as its operation applied at once does, an aborted
\* deleteEntries changes nothing, and whenever no transaction is in
\* progress the collection is the committed content: the final content is
\* that of the operations run one after another in the order they commit.
C16_Isolation ==
    [][/\ \A p \in Callers :
            /\ (pc[p] = "ready" /\ pc'[p] = "done" /\ call[p].op = "getEntry")
                  => ret'[p].res = getEntryResult(committed, call[p].key)
            /\ (pc[p] = "ready" /\ pc'[p] = "done" /\ call[p].op = "getEntries")
                  => ret'[p].list = getEntriesResult(committed, call[p].from,
                                                     call[p].limit, call[p].order)
            /\ (pc[p] = "ready" /\ pc'[p] = "done" /\ call[p].op = "findEntry")
                  => ret'[p].res =
                        findEntryResult(committed, IndexOf(committed), call[p].val).res
            /\ (pc[p] = "ready" /\ pc'[p] = "done" /\ call[p].op = "flush")
                  => committed' = AtOnce(call[p], committed)
            /\ (pc[p] = "ready" /\ pc'[p] = "done" /\ call[p].op = "addEntry")
                  => /\ DOMAIN committed' = DOMAIN committed \cup {ret'[p].res.n}
                     /\ \A k \in DOMAIN committed : committed'[k] = committed[k]
            /\ (pc[p] = "scanning" /\ pc'[p] = "done")
                  => committed' = IF ret'[p].err = "" THEN AtOnce(call[p], committed)
                                  ELSE committed
       /\ tx'.owner = 0 => store' = committed']_vars

\* C16 witness: one caller's deleteEntries has deleted one of the two
\* records of its bucket while a read issued by the other caller has not
\* run yet.
C16_Witness ==
    \E p, q \in Callers :
        /\ tx.owner = p /\ tx.pos = 2 /\ Len(tx.bucket) = 2
        /\ tx.bucket[1] \notin DOMAIN store /\ tx.bucket[2] \in DOMAIN store
        /\ store # committed
        /\ pc[q] = "ready" /\ call[q].op \in {"getEntry", "getEntries", "findEntry"}


\* C17: when IDB.openDB rejects, the operation that called it rejects with
\* that error, no further open is started for the call, no record and no
\* index entry is read or written, no transaction is opened, and neither
\* the call nor DBInstance gets a handle from it.
C17_OpenFailure ==
    [][\A p \in Callers :
          (pc[p] = "opening" /\ pc'[p] # "opening" /\ nHandles' = nHandles)
              => /\ pc'[p] = "done" /\ ret'[p].err = "OpenError"
                 /\ opens' = opens
                 /\ store' = store /\ index' = index /\ keyGen' = keyGen
                 /\ ret'[p].tx = "none" /\ ret'[p].visited = <<>>
                 /\ ret'[p].res = Undef /\ ret'[p].list = <<>>
                 /\ db'[p] = 0
                 /\ DBInstance' = DBInstance]_vars

\* C17 witness: an addEntry has failed with the error of the open; no
\* handle is held and nothing was stored.
C17_Witness ==
    \E p \in Callers :
        /\ pc[p] = "done" /\ call[p].op = "addEntry" /\ ret[p].err = "OpenError"
        /\ DBInstance = 0 /\ nHandles = 0
        /\ opens >= 1
        /\ DOMAIN store = {}

\* C18: the upgrade runs at most once, exactly when the version goes from
\* 0 to DBVersion, however many opens there are; and every call that holds
\* a handle, every opened transaction and every stored record comes after
\* it.
C18_UpgradeOnce ==
    /\ upgrades <= 1
    /\ dbVersion = IF upgrades = 1 THEN DBVersion ELSE 0
    /\ nHandles >= 1 => upgrades = 1
    /\ \A p \in Callers :
          (db[p] # 0 \/ ret[p].tx # "none" \/ pc[p] \in {"ready", "scanning"})
              => upgrades = 1
    /\ (DOMAIN store # {} \/ index # {} \/ addLog # <<>>) => upgrades = 1

\* C18 witness: two opens were started concurrently and both resolved,
\* the upgrade ran once, and a record is stored.
C18_Witness ==
    /\ opens >= 2 /\ nHandles = 2
    /\ upgrades = 1
    /\ DOMAIN store # {}


\* C20: when a key of the criteria object is absent from the candidate
\* object the match returns false, without raising, whatever the criteria
\* hold under that key; and criteria holding null under a key match only
\* a candidate that holds null under it.
C20_AbsentKeys ==
    (mres # "none" /\ obj1.t = "object" /\ obj2.t = "object")
        => /\ (\E i \in 1..Len(obj1.items) : ~HasOwn(obj2, obj1.items[i].k))
                 => mres = "false"
           /\ \A i \in 1..Len(obj1.items) :
                 (obj1.items[i].v = Null /\ mres = "true")
                     => GetProp(obj2, obj1.items[i].k) = Null


\* C21: when deleteEntries(c) has resolved, findEntry({translation: c})
\* on the collection it leaves returns null without error, and the
\* records it removed are exactly the records that findEntry's match
\* accepts for {translation: c}.
C21_DeleteAgreesWithFind ==
    [][\A p \in Callers :
          (/\ pc[p] = "scanning" /\ pc'[p] = "done" /\ ret'[p].err = ""
           /\ HasOwn(call[p].val, "originalText"))
              => LET found == findEntryResult(store', index', CriteriaOf(call[p].val))
                 IN  /\ found.err = "" /\ found.res = Null
                     /\ DOMAIN tx.snapshot \ DOMAIN store'
                           = Matching(tx.snapshot, CriteriaOf(call[p].val))]_vars


\* C22: at most one TranslatorManager is ever constructed and
\* translateManager, once set, is that one; every getTranslateManager
\* call that has resolved holds it; a call that waits awaits a promise
\* that is pending as long as there is no manager and resolved with the
\* manager as soon as there is one; the manager exists exactly from the
\* first run of the watcher on, and from then on it holds the current
\* configuration.
C22_Latch ==
    /\ Len(managers) <= 1
    /\ translateManager = Len(managers)
    /\ \A p \in Callers :
          /\ got[p].state = "resolved"
                => got[p].value # 0 /\ got[p].value = translateManager
          /\ got[p].state = "waiting"
                => /\ got[p].promise \in 1..Len(promises)
                   /\ promises[got[p].promise] = translateManager
    /\ translateManager # 0 <=> Watchers > 0
    /\ translateManager # 0 => managers[translateManager] = config

\* C22 witness: two calls that waited on the promise have both resolved
\* with the one manager, start() ran twice, and the configuration has
\* changed since: the manager holds the new one.
C22_Witness ==
    /\ \A p \in Callers :
          got[p].state = "resolved" /\ got[p].promise # 0 /\ got[p].value = 1
    /\ Watchers = 2
    /\ updates >= 1 /\ config # 1
    /\ Len(managers) = 1 /\ managers[1] = config

=============================================================================
